---- MODULE Spec2Model ----
(***************************************************************************)
(* State-machine model of the Dukascopy tick loaders of SPtrader:          *)
(*   - DukascopyManager (data_feeds/dukascopy/download_and_import.py)      *)
(*   - the `load` command (tools/data-feeds/dukascopy_loader.py)           *)
(*   - the automated loader (data_feeds/automated_data_loader.py)          *)
(* Days are day offsets from the start date of the range, an hour task is  *)
(* a pair <<day, hour>>, a batch is a pair <<first day, last day>>.        *)
(***************************************************************************)
EXTENDS Integers, Sequences, FiniteSets, TLC

\* ------------------------------------------------------------------ bounds
\* longest date range, in days
MaxDays == 3
\* largest batch_days
MaxBatchDays == 2
\* number of successive runs of the program over the same range
MaxRuns == 2
\* longest range, in days, and largest batch_days, for the batch list alone
MaxSpan == 8
MaxStep == 4
\* most records given to insert_batch_http; insert_batch is given up to
\* MaxRecords half chunks of records, plus 0, 1 or half a chunk less one
MaxRecords == 25
\* longest decompressed payload, in bytes
MaxPayload == 45
\* most ticks given to the enrichment of one hour
MaxTicks == 3
\* latest end of a candles request, in days after the earliest start
MaxEndDay == 32

\* the hours of the day the runs are modelled for (range(24) in the source):
\* the hour tasks of a day are independent and alike, one stands for them
Hours == {22}
\* python weekday() of the first day of the range (Monday = 0 ... Sunday = 6)
StartWeekdays == {3, 4, 5, 6}
\* hour of the day of the start datetime (0 for a parsed date, any for now())
StartHours == {0, 22}

Days == 0 .. (MaxDays - 1)
Tasks == Days \X Hours

Min(a, b) == IF a <= b THEN a ELSE b

VARIABLES
  \* ---- the range and configuration of the run
  numDays,        \* the range is day 0 .. numDays-1 (start_date .. end_date)
  batch_days,     \* self.batch_days / --batch-days
  startWeekday,   \* start_date.weekday()
  startHour,      \* start_date.hour
  run,            \* number of the current process (1 = first run)
  \* ---- DukascopyManager
  m_pc,           \* position of the orchestrator thread
  state,          \* self.state['completed_batches'] (the keys, as a set)
  stateFile,      \* STATE_PATH on disk: [kind, completed]
  batch_idx,      \* index into batches (1-based)
  pending,        \* submitted hour tasks that have not run yet
  futures,        \* finished futures: task -> "zero" | "ticks" | "raised"
  error_count,
  batch_ticks,
  failed_batches, \* sequence of batch indexes
  cache,          \* cache_dir: task -> "none" | "ticks" | "corrupt"
  store,          \* market_data_v2: the hour tasks whose rows were inserted
  \* ---- history of the run (not program state)
  h_neterr,       \* batches (indexes) with an hour whose vendor request failed
  h_raised,       \* batches (indexes) with an hour task that raised
  h_processed,    \* sequence of batch indexes this run processed (not skipped)
  h_startDone,    \* keys in self.state when download_date_range started
  h_saved,        \* keys that save_state has written to the state file, in any run
  h_save,         \* <<file before, file to write>> of a save_state that has started
                  \* and not finished, else <<>>
  \* ---- dukascopy_loader.py, the `load` command
  l_pc,           \* position in main / process_date_range
  progress,       \* progress[job_key]: <<>> (no key) or <<last processed day>>
  progressFile,   \* STATE_FILE on disk: [kind, value]
  current,        \* first day of the current batch
  batch_current,  \* the day download_single_day is called for next
  batch_records,  \* hour tasks whose records are in batch_records
  l_failed,       \* failed_batches: sequence of <<first day, last day>>
  ingested,       \* rows the ingestion binary received: task -> number of times
  h_days,         \* days this run has called download_single_day for
  h_net,          \* this run has sent a request to the vendor
  h_ingested0,    \* `ingested` when this run started
  h_prevFailed,   \* the failed batches of the previous run, if it returned
  h_prevClean,    \* the previous run returned with no failed batch
  h_hourErr,      \* days of this run with an hour whose vendor request failed
  \* ---- automated_data_loader.py (it shares l_pc, progress, progressFile,
  \*      current, batch_current, batch_records, ingested, h_days, h_net)
  success,        \* main's success flag
  h_ingestFailed, \* days whose batch process_batch reported as failed
  h_logged,       \* main has logged "Failed to process batch"
  h_ohlc,         \* main has run the OHLC generation
  \* ---- one call of a function or method checked on its own
  fn_pc,          \* "unused", or the position of the call
  fn_args,        \* the arguments and the state the call starts from
  fn_result       \* what the call has returned or done so far

rangeVars == <<numDays, batch_days, startWeekday, startHour, run>>
mgrVars == <<m_pc, state, stateFile, batch_idx, pending, futures,
             error_count, batch_ticks, failed_batches, cache, store>>
histVars == <<h_neterr, h_raised, h_processed, h_startDone, h_saved, h_save>>
ldrVars == <<l_pc, progress, progressFile, current, batch_current, batch_records,
             l_failed, ingested>>
ldrHist == <<h_days, h_net, h_ingested0, h_prevFailed, h_prevClean, h_hourErr>>
fnVars == <<fn_pc, fn_args, fn_result>>
vars == <<rangeVars, mgrVars, histVars, ldrVars, ldrHist,
          success, h_ingestFailed, h_logged, h_ohlc, fnVars>>
\* what the manager alone uses, what the automated loader alone uses, and what
\* the manager and the `load` command leave alone
mgrOnly == <<m_pc, state, stateFile, batch_idx, pending, futures, error_count,
             batch_ticks, failed_batches, store, histVars>>
autoOnly == <<success, h_ingestFailed, h_logged, h_ohlc>>
notMgr == <<ldrVars, ldrHist, autoOnly, fnVars>>
notLdr == <<mgrOnly, autoOnly, fnVars>>
\* what a call checked on its own leaves alone
notFn == <<rangeVars, mgrVars, histVars, ldrVars, ldrHist, autoOnly>>

\* ------------------------------------------------------------ calendar
\* datetime.weekday() of day d of the range
Weekday(d) == (startWeekday + d) % 7

\* ------------------------------------------------- batches of the range
\* download_date_range, "Create batches of days to process"
RECURSIVE BatchesFromBroken(_, _, _)
BatchesFromBroken(current_start, end, bd) ==
  IF current_start > end THEN <<>>
  ELSE LET current_end == current_start + bd - 1
       IN  <<<<current_start, current_end>>>> \o BatchesFromBroken(current_end + 1, end, bd)

RECURSIVE BatchesFrom(_, _, _)
BatchesFrom(current_start, end, bd) ==
  IF current_start > end THEN <<>>
  ELSE LET current_end == Min(current_start + bd - 1, end)
       IN  <<<<current_start, current_end>>>> \o BatchesFrom(current_end + 1, end, bd)

batches == BatchesFrom(0, numDays - 1, batch_days)

\* batch_key = f"{instrument}_{batch_start.date()}_{batch_end.date()}"
BatchKey(b) == <<"EURUSD", b[1], b[2]>>

\* download_date_range, "Generate list of all hours to download in this batch"
BatchTasks(b) ==
  { t \in Tasks :
      /\ b[1] <= t[1] /\ t[1] <= b[2]
      /\ \/ Weekday(t[1]) < 5
         \/ (Weekday(t[1]) = 6 /\ startHour >= 22) }

\* ------------------------------------------------------ the state file
AbsentFile == [kind |-> "absent", completed |-> {}]
\* a file whose write did not finish: empty or a prefix of the JSON text
TruncatedFile == [kind |-> "truncated", completed |-> {}]
JsonFile(keys) == [kind |-> "json", completed |-> keys]

\* DukascopyManager.load_state
load_state(f) == IF f.kind = "json" THEN f.completed ELSE {}

\* ------------------------------------------------------ one hour task
VendorResponses == {"ticks", "corrupt", "nodata", "neterror"}

\* DukascopyManager.download_hour_data: the blob it returns ("none" for None)
download_hour_dataBroken(c, t, resp) ==
  IF resp \in {"ticks", "corrupt"} THEN resp ELSE c[t]
download_hour_data(c, t, resp) ==
  IF c[t] # "none" THEN c[t]
  ELSE IF resp \in {"ticks", "corrupt"} THEN resp ELSE "none"

\* the cache after download_hour_data
CacheAfter(c, t, resp) ==
  IF c[t] = "none" /\ resp \in {"ticks", "corrupt"} THEN [c EXCEPT ![t] = resp] ELSE c

\* DukascopyManager.process_hour_ticks: number of records of a blob
\* (a blob that fails to decompress gives none)
process_hour_ticks(blob) == IF blob = "ticks" THEN 1 ELSE 0

\* DukascopyManager.process_single_hour: "zero" (returns 0), "ticks"
\* (returns len(records) > 0) or "raised" (insert failed)
process_single_hourBroken(c, t, resp, insertOk) ==
  LET blob == download_hour_data(c, t, resp)
  IN  IF blob = "none" THEN "zero"
      ELSE IF blob = "corrupt" THEN "raised"
      ELSE IF insertOk THEN "ticks" ELSE "raised"
process_single_hour(c, t, resp, insertOk) ==
  LET blob == download_hour_data(c, t, resp)
  IN  IF blob = "none" THEN "zero"
      ELSE IF process_hour_ticks(blob) = 0 THEN "zero"
      ELSE IF insertOk THEN "ticks" ELSE "raised"

\* ------------------------------------------------------------- Init
MgrIdle ==
  /\ state = {}
  /\ batch_idx = 1
  /\ pending = {}
  /\ futures = [t \in {} |-> "zero"]
  /\ error_count = 0
  /\ batch_ticks = 0
  /\ failed_batches = <<>>

HistEmpty ==
  /\ h_neterr = {}
  /\ h_raised = {}
  /\ h_processed = <<>>
  /\ h_startDone = {}

RangeInit ==
  /\ numDays \in 1 .. MaxDays
  /\ batch_days \in 1 .. MaxBatchDays
  /\ startWeekday \in StartWeekdays
  /\ startHour \in StartHours
  /\ run = 1

\* no function is checked on its own while a program is modelled
FnUnused ==
  /\ fn_pc = "unused"
  /\ fn_args = <<>>
  /\ fn_result = <<>>

\* the variables of the automated loader while another program is modelled
AutoUnused ==
  /\ success = TRUE
  /\ h_ingestFailed = {}
  /\ h_logged = FALSE
  /\ h_ohlc = FALSE

\* the variables of the `load` command while another program is modelled
LdrUnused ==
  /\ l_pc = "unused"
  /\ progress = <<>>
  /\ progressFile = [kind |-> "absent", value |-> <<>>]
  /\ current = 0
  /\ batch_current = 0
  /\ batch_records = {}
  /\ l_failed = <<>>
  /\ ingested = [t \in Tasks |-> 0]
  /\ h_days = {}
  /\ h_net = FALSE
  /\ h_ingested0 = [t \in Tasks |-> 0]
  /\ h_prevFailed = {}
  /\ h_prevClean = FALSE
  /\ h_hourErr = {}
  /\ AutoUnused

MgrInit ==
  /\ RangeInit
  /\ m_pc = "new"
  /\ stateFile = AbsentFile
  /\ cache = [t \in Tasks |-> "none"]
  /\ store = {}
  /\ MgrIdle
  /\ HistEmpty
  /\ h_saved = {}
  /\ h_save = <<>>
  /\ LdrUnused
  /\ FnUnused

\* the memory of a process that does not exist (yet, or any more)
MgrReset ==
  /\ state' = {}
  /\ batch_idx' = 1
  /\ pending' = {}
  /\ futures' = [t \in {} |-> "zero"]
  /\ error_count' = 0
  /\ batch_ticks' = 0
  /\ failed_batches' = <<>>

HistReset ==
  /\ h_neterr' = {}
  /\ h_raised' = {}
  /\ h_processed' = <<>>
  /\ h_startDone' = {}

\* ---------------------------------------------------- manager actions
\* DukascopyManager.__init__: self.state = self.load_state(); then
\* download_date_range builds the batches
MgrLoadState ==
  /\ UNCHANGED notMgr
  /\ m_pc = "new"
  /\ state' = load_state(stateFile)
  /\ h_startDone' = load_state(stateFile)
  /\ m_pc' = "loop"
  /\ UNCHANGED <<rangeVars, stateFile, batch_idx, pending, futures,
                 error_count, batch_ticks, failed_batches, cache, store,
                 h_neterr, h_raised, h_processed, h_saved, h_save>>

\* "Check if this batch is already completed": continue
MgrSkipBatch ==
  /\ UNCHANGED notMgr
  /\ m_pc = "loop"
  /\ batch_idx <= Len(batches)
  /\ BatchKey(batches[batch_idx]) \in state
  /\ batch_idx' = batch_idx + 1
  /\ UNCHANGED <<rangeVars, m_pc, state, stateFile, pending, futures,
                 error_count, batch_ticks, failed_batches, cache, store,
                 histVars>>

\* the batch is not completed: build its tasks and submit them all
MgrSubmitBatch ==
  /\ UNCHANGED notMgr
  /\ m_pc = "loop"
  /\ batch_idx <= Len(batches)
  /\ BatchKey(batches[batch_idx]) \notin state
  /\ pending' = BatchTasks(batches[batch_idx])
  /\ futures' = [t \in {} |-> "zero"]
  /\ error_count' = 0
  /\ batch_ticks' = 0
  /\ m_pc' = "pool"
  /\ h_processed' = Append(h_processed, batch_idx)
  /\ UNCHANGED <<rangeVars, state, stateFile, batch_idx, failed_batches,
                 cache, store, h_neterr, h_raised, h_startDone, h_saved, h_save>>

\* the submitted tasks that have not run once task t has finished with result
\* res: a result, an exception included, is kept in t's future and touches no
\* other task
remaining_tasksBroken(p, t, res) == IF res = "raised" THEN {} ELSE p \ {t}
remaining_tasks(p, t, res) == p \ {t}

\* a worker of the pool runs process_single_hour for one submitted task
MgrRunTask ==
  /\ UNCHANGED notMgr
  /\ m_pc = "pool"
  /\ \E t \in pending, resp \in VendorResponses, insertOk \in BOOLEAN :
       LET res == process_single_hour(cache, t, resp, insertOk)
           miss == cache[t] = "none"
       IN  /\ pending' = remaining_tasks(pending, t, res)
           /\ futures' = [u \in (DOMAIN futures) \cup {t} |->
                            IF u = t THEN res ELSE futures[u]]
           /\ cache' = CacheAfter(cache, t, resp)
           /\ store' = IF res = "ticks" THEN store \cup {t} ELSE store
           /\ h_neterr' = IF miss /\ resp = "neterror"
                          THEN h_neterr \cup {batch_idx} ELSE h_neterr
           /\ h_raised' = IF res = "raised" THEN h_raised \cup {batch_idx} ELSE h_raised
  /\ UNCHANGED <<rangeVars, m_pc, state, stateFile, batch_idx, error_count,
                 batch_ticks, failed_batches, h_processed, h_startDone, h_saved, h_save>>

\* number of finished futures with result r
CountResult(f, r) == Cardinality({t \in DOMAIN f : f[t] = r})

\* as_completed(future_to_task) is exhausted, and the with-block of the
\* executor is left, when no submitted task is left to finish
all_completedBroken(p) == TRUE
all_completed(p) == p = {}

\* the as_completed loop: it ends when every submitted future has finished
\* and has been consumed (the executor's with-block then joins the workers)
MgrCollect ==
  /\ UNCHANGED notMgr
  /\ m_pc = "pool"
  /\ all_completed(pending)
  /\ error_count' = CountResult(futures, "raised")
  /\ batch_ticks' = CountResult(futures, "ticks")
  /\ m_pc' = "status"
  /\ UNCHANGED <<rangeVars, state, stateFile, batch_idx, pending, futures,
                 failed_batches, cache, store, histVars>>

\* "Update batch status": the test that marks the batch complete
BatchSucceededBroken(errors) == TRUE
BatchSucceeded(errors) == errors = 0

\* the batch the loop goes to after batch i
NextBatchBroken(i, errors) == IF errors > 0 THEN Len(batches) + 1 ELSE i + 1
NextBatch(i, errors) == i + 1

\* "Update batch status"
MgrDecide ==
  /\ UNCHANGED notMgr
  /\ m_pc = "status"
  /\ IF BatchSucceeded(error_count)
     THEN /\ state' = state \cup {BatchKey(batches[batch_idx])}
          /\ m_pc' = "save_open"
          /\ UNCHANGED <<failed_batches, batch_idx>>
     ELSE /\ failed_batches' = Append(failed_batches, batch_idx)
          /\ batch_idx' = NextBatch(batch_idx, error_count)
          /\ m_pc' = "loop"
          /\ UNCHANGED state
  /\ UNCHANGED <<rangeVars, stateFile, pending, futures, error_count,
                 batch_ticks, cache, store, histVars>>

\* save_state: open(STATE_PATH, 'w') truncates the file
MgrSaveOpen ==
  /\ UNCHANGED notMgr
  /\ m_pc = "save_open"
  /\ stateFile' = TruncatedFile
  /\ m_pc' = "save_dump"
  /\ h_save' = <<stateFile, JsonFile(state)>>
  /\ UNCHANGED <<rangeVars, state, batch_idx, pending, futures, error_count,
                 batch_ticks, failed_batches, cache, store,
                 h_neterr, h_raised, h_processed, h_startDone, h_saved>>

\* save_state: json.dump and close; the loop goes on
MgrSaveDump ==
  /\ UNCHANGED notMgr
  /\ m_pc = "save_dump"
  /\ stateFile' = JsonFile(state)
  /\ batch_idx' = NextBatch(batch_idx, error_count)
  /\ m_pc' = "loop"
  /\ h_saved' = h_saved \cup state
  /\ h_save' = <<>>
  /\ UNCHANGED <<rangeVars, state, pending, futures, error_count,
                 batch_ticks, failed_batches, cache, store,
                 h_neterr, h_raised, h_processed, h_startDone>>

\* download_date_range returns
MgrReturn ==
  /\ UNCHANGED notMgr
  /\ m_pc = "loop"
  /\ batch_idx > Len(batches)
  /\ m_pc' = "done"
  /\ UNCHANGED <<rangeVars, state, stateFile, batch_idx, pending, futures,
                 error_count, batch_ticks, failed_batches, cache, store,
                 histVars>>

\* the process is interrupted or killed
MgrCrash ==
  /\ UNCHANGED notMgr
  /\ m_pc \in {"loop", "pool", "status", "save_open", "save_dump"}
  /\ m_pc' = "dead"
  /\ MgrReset
  /\ HistReset
  /\ UNCHANGED <<rangeVars, stateFile, cache, store, h_saved, h_save>>

\* the operator runs the same command again: a new process
MgrRerun ==
  /\ UNCHANGED notMgr
  /\ m_pc \in {"dead", "done"}
  /\ run < MaxRuns
  /\ run' = run + 1
  /\ m_pc' = "new"
  /\ MgrReset
  /\ HistReset
  /\ h_save' = <<>>
  /\ UNCHANGED h_saved
  /\ UNCHANGED <<numDays, batch_days, startWeekday, startHour, stateFile, cache, store>>

MgrNext ==
  \/ MgrLoadState
  \/ MgrSkipBatch
  \/ MgrSubmitBatch
  \/ MgrRunTask
  \/ MgrCollect
  \/ MgrDecide
  \/ MgrSaveOpen
  \/ MgrSaveDump
  \/ MgrReturn
  \/ MgrCrash
  \/ MgrRerun

SpecMgr == MgrInit /\ [][MgrNext]_vars

\* ------------------------------------------- properties of the manager
Range(s) == {s[i] : i \in DOMAIN s}
KeyOf(i) == BatchKey(batches[i])
\* the batches this run has processed and whose status it has decided
Decided == {i \in Range(h_processed) : i < batch_idx}
InSave == m_pc \in {"save_open", "save_dump"}

\* the hour tasks submitted to the pool for the current batch
Submitted == pending \cup DOMAIN futures

\* C1: a batch whose key save_state has written to the state file (in this
\* run or in an interrupted earlier one) never has an hour task submitted
\* again: no task in the pool belongs to a batch whose key was saved.
C1_SavedBatchNotResubmitted ==
  (m_pc = "pool" /\ Submitted # {}) => KeyOf(batch_idx) \notin h_saved

\* C2: for every batch this run has decided, its key is in completed_batches
\* (in memory, and in the state file once save_state has returned) exactly
\* when none of its hour tasks raised, and the batch is on the failed list
\* exactly when one did.
C2_KeySavedIffNoTaskRaised ==
  \A i \in Decided :
    /\ (i \in h_raised) <=> (KeyOf(i) \notin state)
    /\ (i \in h_raised) <=> (i \in Range(failed_batches))
    /\ ~InSave => ((i \in h_raised) <=> (KeyOf(i) \notin load_state(stateFile)))

C2_Witness ==
  \E i, j \in Decided :
    /\ i \in h_raised /\ i \in Range(failed_batches)
    /\ j \notin h_raised /\ KeyOf(j) \in load_state(stateFile)

\* C5: a batch that contains an hour whose vendor request failed with a
\* network error or a timeout is not recorded as completed by that run:
\* its key does not get into the state file.
C5_FailedFetchBatchNotCompleted ==
  \A i \in h_neterr : KeyOf(i) \notin load_state(stateFile)

\* C6: after a crash during save_state the state file holds the complete
\* previous mapping or the complete new one.
C6_SaveAtomic ==
  (m_pc = "dead" /\ h_save # <<>>) => stateFile \in {h_save[1], h_save[2]}

\* C8: when download_date_range returns it has processed, in range order,
\* exactly the batches that were not completed when it started, and the
\* failed list holds exactly the processed batches in which a task raised.
C8_AllPendingBatchesProcessed ==
  m_pc = "done" =>
    LET Index == [i \in 1 .. Len(batches) |-> i]
        NotDoneAtStart(i) == KeyOf(i) \notin h_startDone
        Raised(i) == i \in h_raised
    IN  /\ h_processed = SelectSeq(Index, NotDoneAtStart)
        /\ failed_batches = SelectSeq(h_processed, Raised)

C8_Witness ==
  /\ m_pc = "done"
  /\ \E i \in Range(failed_batches), j \in Range(h_processed) : i < j

\* C13: an hour task whose blob does not decompress finishes with zero
\* records and without raising, so it is not counted in error_count; the
\* other hour tasks of the batch that got records have them in the store, and
\* once the batch is decided its key is in completed_batches unless another
\* task raised.
C13_CorruptHourDoesNotFailBatch ==
  /\ \A t \in DOMAIN futures : cache[t] = "corrupt" => futures[t] = "zero"
  /\ \A t \in DOMAIN futures : futures[t] = "ticks" => t \in store
  /\ m_pc = "status" =>
       error_count = Cardinality({t \in DOMAIN futures : futures[t] = "raised"})
  /\ \A i \in Decided :
       ((\E t \in BatchTasks(batches[i]) : cache[t] = "corrupt") /\ i \notin h_raised)
         => KeyOf(i) \in state

\* a first run has completed a batch with a corrupt hour and an ingested one
C13_Witness ==
  /\ run = 1
  /\ \E i \in Decided : \E t, u \in BatchTasks(batches[i]) :
       /\ cache[t] = "corrupt"
       /\ u \in store
       /\ KeyOf(i) \in load_state(stateFile)

\* C23: while an hour task is pending or running it belongs to the batch the
\* orchestrator is at, so no task of another batch is, and that batch's key
\* is in completed_batches neither in memory nor in the state file; the
\* state file changes only in the orchestrator's save_state, never in a step
\* of a worker.
C23_OneBatchInFlight ==
  /\ [](pending # {} =>
         /\ m_pc = "pool"
         /\ pending \subseteq BatchTasks(batches[batch_idx])
         /\ KeyOf(batch_idx) \notin state
         /\ KeyOf(batch_idx) \notin load_state(stateFile))
  /\ [][stateFile' # stateFile => m_pc \in {"save_open", "save_dump"}]_vars

\* a task of the second batch is in flight and the first batch is complete
\* in the state file
C23_Witness ==
  /\ pending # {}
  /\ batch_idx = 2
  /\ KeyOf(1) \in load_state(stateFile)

\* C24: when the status of a batch is decided every task submitted for it
\* has finished, whatever order the workers ran them in and whether or not
\* some raised, and error_count is the number of its tasks that raised.
C24_RaiseDoesNotCancelSiblings ==
  m_pc = "status" =>
    /\ pending = {}
    /\ DOMAIN futures = BatchTasks(batches[batch_idx])
    /\ error_count = Cardinality({t \in BatchTasks(batches[batch_idx]) :
                                    futures[t] = "raised"})

\* a batch in which one task raised and another got its rows stored
C24_Witness ==
  /\ m_pc = "status"
  /\ error_count = 1
  /\ \E t, u \in DOMAIN futures : futures[t] = "raised" /\ futures[u] = "ticks"

\* =================================================================
\* dukascopy_loader.py: the `load` command
\* =================================================================
\* the manager's variables while the `load` command is modelled
MgrUnused ==
  /\ m_pc = "unused"
  /\ stateFile = AbsentFile
  /\ store = {}
  /\ MgrIdle
  /\ HistEmpty
  /\ h_saved = {}
  /\ h_save = <<>>

\* the progress file: absent, a JSON mapping, or a file whose write did not end
AbsentProgress == [kind |-> "absent", value |-> <<>>]
TruncatedProgress == [kind |-> "truncated", value |-> <<>>]
JsonProgress(v) == [kind |-> "json", value |-> v]

\* load_progress raises when json.load cannot parse the file
load_progress_raises(f) == f.kind = "truncated"
\* load_progress: the mapping's entry for job_key
load_progress(f) == IF f.kind = "json" THEN f.value ELSE <<>>

\* batch_end = min(current + timedelta(days=batch_days - 1), end_date)
BatchEnd(cur) == Min(cur + batch_days - 1, numDays - 1)

\* DukascopyDownloader.download_date_range([symbol], ...): it is given a list
\* as instrument, so every request and cache file name is built from the
\* text of the list; one request per hour of each Monday-Friday day
PreDownloadRequests(first, last) ==
  { t \in Tasks : first <= t[1] /\ t[1] <= last /\ Weekday(t[1]) < 5 }

\* download_single_day: the hours of day d whose blob gives records, for the
\* vendor's answers resp (hour -> answer)
DayRecords(c, d, resp) ==
  { t \in Tasks : t[1] = d /\ process_hour_ticks(download_hour_data(c, t, resp[t[2]])) > 0 }

\* the cache after download_single_day
RECURSIVE CacheAfterAll(_, _, _)
CacheAfterAll(c, ts, resp) ==
  IF ts = {} THEN c
  ELSE LET t == CHOOSE x \in ts : TRUE
       IN  CacheAfterAll(CacheAfter(c, t, resp[t[2]]), ts \ {t}, resp)

LdrInit ==
  /\ RangeInit
  /\ MgrUnused
  /\ cache = [t \in Tasks |-> "none"]
  /\ l_pc = "new"
  /\ progress = <<>>
  /\ progressFile = AbsentProgress
  /\ current = 0
  /\ batch_current = 0
  /\ batch_records = {}
  /\ l_failed = <<>>
  /\ ingested = [t \in Tasks |-> 0]
  /\ h_days = {}
  /\ h_net = FALSE
  /\ h_ingested0 = [t \in Tasks |-> 0]
  /\ h_prevFailed = {}
  /\ h_prevClean = FALSE
  /\ h_hourErr = {}
  /\ AutoUnused
  /\ FnUnused

\* the memory of a process that does not exist (yet, or any more)
LdrReset ==
  /\ progress' = <<>>
  /\ current' = 0
  /\ batch_current' = 0
  /\ batch_records' = {}
  /\ l_failed' = <<>>
  /\ h_days' = {}
  /\ h_net' = FALSE
  /\ h_hourErr' = {}

\* process_date_range: load_progress, then the resume point
LdrLoadProgress ==
  /\ UNCHANGED notLdr
  /\ l_pc = "new"
  /\ IF load_progress_raises(progressFile)
     THEN /\ l_pc' = "load_raised"
          /\ UNCHANGED <<progress, current>>
     ELSE /\ progress' = load_progress(progressFile)
          /\ current' = IF load_progress(progressFile) # <<>>
                        THEN load_progress(progressFile)[1] + 1 ELSE 0
          /\ l_pc' = "loop"
  /\ UNCHANGED <<rangeVars, cache, progressFile, batch_current, batch_records,
                 l_failed, ingested, ldrHist>>

\* while current <= end_date: the batch starts with the pre-download
LdrPreDownload ==
  /\ UNCHANGED notLdr
  /\ l_pc = "loop"
  /\ current <= numDays - 1
  /\ batch_records' = {}
  /\ batch_current' = current
  /\ h_net' = (h_net \/ PreDownloadRequests(current, BatchEnd(current)) # {})
  /\ l_pc' = "days"
  /\ UNCHANGED <<rangeVars, cache, progress, progressFile, current, l_failed,
                 ingested, h_days, h_ingested0, h_prevFailed, h_prevClean, h_hourErr>>

\* download_single_day(symbol, batch_current, logger)
LdrDay ==
  /\ UNCHANGED notLdr
  /\ l_pc = "days"
  /\ batch_current <= BatchEnd(current)
  /\ \E resp \in [Hours -> VendorResponses] :
       LET today == {t \in Tasks : t[1] = batch_current}
       IN  /\ batch_records' = batch_records \cup DayRecords(cache, batch_current, resp)
           /\ cache' = CacheAfterAll(cache, today, resp)
           /\ h_net' = (h_net \/ \E t \in today : cache[t] = "none")
           /\ h_hourErr' = IF \E t \in today : cache[t] = "none" /\ resp[t[2]] = "neterror"
                           THEN h_hourErr \cup {batch_current} ELSE h_hourErr
  /\ batch_current' = batch_current + 1
  /\ h_days' = h_days \cup {batch_current}
  /\ UNCHANGED <<rangeVars, l_pc, progress, progressFile, current, l_failed,
                 ingested, h_ingested0, h_prevFailed, h_prevClean>>

\* the value written to progress[job_key] after a batch was ingested
ProgressAfter(b_end) == <<b_end>>

\* "Send batch to ILP": send_to_ilp returns True, returns False or raises
LdrSend ==
  /\ UNCHANGED notLdr
  /\ l_pc = "days"
  /\ batch_current > BatchEnd(current)
  /\ IF batch_records = {}
     THEN /\ current' = BatchEnd(current) + 1
          /\ l_pc' = "loop"
          /\ UNCHANGED <<progress, l_failed, ingested>>
     ELSE \E outcome \in {"ok", "failed", "raised"} :
            IF outcome = "ok"
            THEN /\ ingested' = [t \in Tasks |->
                                   IF t \in batch_records THEN ingested[t] + 1
                                   ELSE ingested[t]]
                 /\ progress' = ProgressAfter(BatchEnd(current))
                 /\ l_pc' = "save_open"
                 /\ UNCHANGED <<current, l_failed>>
            ELSE /\ l_failed' = Append(l_failed, <<current, BatchEnd(current)>>)
                 /\ current' = BatchEnd(current) + 1
                 /\ l_pc' = "loop"
                 /\ UNCHANGED <<progress, ingested>>
  /\ UNCHANGED <<rangeVars, cache, progressFile, batch_current, batch_records, ldrHist>>

\* save_progress: open(STATE_FILE, 'w') truncates the file
LdrSaveOpen ==
  /\ UNCHANGED notLdr
  /\ l_pc \in {"save_open", "clean_open"}
  /\ progressFile' = TruncatedProgress
  /\ l_pc' = IF l_pc = "save_open" THEN "save_dump" ELSE "clean_dump"
  /\ UNCHANGED <<rangeVars, cache, progress, current, batch_current, batch_records,
                 l_failed, ingested, ldrHist>>

\* save_progress: json.dump and close; "Move to next batch"
LdrSaveDump ==
  /\ UNCHANGED notLdr
  /\ l_pc = "save_dump"
  /\ progressFile' = JsonProgress(progress)
  /\ current' = BatchEnd(current) + 1
  /\ l_pc' = "loop"
  /\ UNCHANGED <<rangeVars, cache, progress, batch_current, batch_records,
                 l_failed, ingested, ldrHist>>

\* "Summary": with no failed batch the job's progress entry is deleted
LdrSummary ==
  /\ UNCHANGED notLdr
  /\ l_pc = "loop"
  /\ current > numDays - 1
  /\ IF l_failed = <<>> /\ progress # <<>>
     THEN /\ progress' = <<>>
          /\ l_pc' = "clean_open"
     ELSE /\ l_pc' = "returned"
          /\ UNCHANGED progress
  /\ UNCHANGED <<rangeVars, cache, progressFile, current, batch_current, batch_records,
                 l_failed, ingested, ldrHist>>

\* save_progress after the deletion: json.dump and close
LdrCleanDump ==
  /\ UNCHANGED notLdr
  /\ l_pc = "clean_dump"
  /\ progressFile' = JsonProgress(progress)
  /\ l_pc' = "returned"
  /\ UNCHANGED <<rangeVars, cache, progress, current, batch_current, batch_records,
                 l_failed, ingested, ldrHist>>

\* the exit code of the process: main returns (0) whatever failed_batches holds
ExitCode(failed) == "exit0"

\* main: process_date_range has returned (total_ticks, failed_batches); main
\* logs them and returns
LdrExit ==
  /\ UNCHANGED notLdr
  /\ l_pc = "returned"
  /\ l_pc' = ExitCode(l_failed)
  /\ UNCHANGED <<rangeVars, cache, progress, progressFile, current, batch_current,
                 batch_records, l_failed, ingested, ldrHist>>

\* the process is interrupted or killed
LdrCrash ==
  /\ UNCHANGED notLdr
  /\ l_pc \in {"loop", "days", "save_open", "save_dump", "clean_open", "clean_dump"}
  /\ l_pc' = "dead"
  /\ LdrReset
  /\ UNCHANGED <<rangeVars, cache, progressFile, ingested, h_ingested0,
                 h_prevFailed, h_prevClean>>

\* the operator runs the same command again: a new process
LdrRerun ==
  /\ UNCHANGED notLdr
  /\ l_pc \in {"dead", "exit0", "exit1", "load_raised"}
  /\ run < MaxRuns
  /\ run' = run + 1
  /\ l_pc' = "new"
  /\ LdrReset
  /\ h_ingested0' = ingested
  /\ h_prevFailed' = IF l_pc \in {"exit0", "exit1"} THEN Range(l_failed) ELSE {}
  /\ h_prevClean' = (l_pc \in {"exit0", "exit1"} /\ l_failed = <<>>)
  /\ UNCHANGED <<numDays, batch_days, startWeekday, startHour, cache, progressFile,
                 ingested>>

LdrNext ==
  \/ LdrLoadProgress
  \/ LdrPreDownload
  \/ LdrDay
  \/ LdrSend
  \/ LdrSaveOpen
  \/ LdrSaveDump
  \/ LdrSummary
  \/ LdrCleanDump
  \/ LdrExit
  \/ LdrCrash
  \/ LdrRerun

SpecLoader == LdrInit /\ [][LdrNext]_vars

\* --------------------------------------- properties of the `load` command
\* C3: every day of a batch that failed in the previous run is processed
\* again by this run (same range, same batch_days) before it ends.
C3_FailedBatchRetried ==
  l_pc \in {"exit0", "exit1"} =>
    \A b \in h_prevFailed : \A d \in b[1] .. b[2] : d \in h_days

\* C4: a run that follows a run with no failed batch (which ingested some
\* rows) processes no batch, sends no vendor request and delivers nothing to
\* the sink: the rows in the store stay those of the first run.
C4_SecondRunIdle ==
  (h_prevClean /\ \E t \in Tasks : h_ingested0[t] > 0)
    => (h_days = {} /\ ~h_net /\ ingested = h_ingested0)

\* C25: the progress of the job is at or past a day only if no hour of that
\* day's batch had a fetch that ended in an error in this run: a day with
\* such an hour is after the recorded progress.
C25_ProgressOnlyPastCleanBatches ==
  progress # <<>> => \A d \in h_hourErr : d > progress[1]

\* C7: loading the progress never raises; a malformed file is read as the
\* empty mapping.
C7_LoadNeverRaises ==
  l_pc # "load_raised"

\* C10: the load command exits with code 0 exactly when no batch failed.
C10_ExitCodeReflectsFailures ==
  /\ l_pc = "exit0" => l_failed = <<>>
  /\ l_pc = "exit1" => l_failed # <<>>

\* =================================================================
\* automated_data_loader.py: the "load latest" command
\* =================================================================
\* BATCH_DAYS = 1  # Process 1 day at a time
BATCH_DAYS == 1

\* what the automated loader leaves alone
notAuto == <<mgrOnly, l_failed, h_ingested0, h_prevFailed, h_prevClean, h_hourErr, fnVars>>

\* send_to_ilp's result for what the ingestion service does: True when its
\* return code is 0, False otherwise; when the service cannot be started the
\* call raises instead of returning
send_to_ilpBroken(outcome) == TRUE
send_to_ilp(outcome) == outcome = "ok"

\* main's loop test: while current_start <= end_date and success
AutoLoopTest == current <= numDays - 1 /\ success

\* day 0 is main's start_date and day numDays - 1 its end_date (yesterday);
\* the progress file is absent, or was left by a run killed while saving
AutoInit ==
  /\ numDays \in 1 .. MaxDays
  /\ batch_days = BATCH_DAYS
  /\ startWeekday \in StartWeekdays
  /\ startHour = 0
  /\ run = 1
  /\ MgrUnused
  /\ cache = [t \in Tasks |-> "none"]
  /\ l_pc = "new"
  /\ progress = <<>>
  /\ progressFile \in {AbsentProgress, TruncatedProgress}
  /\ current = 0
  /\ batch_current = 0
  /\ batch_records = {}
  /\ l_failed = <<>>
  /\ ingested = [t \in Tasks |-> 0]
  /\ h_days = {}
  /\ h_net = FALSE
  /\ h_ingested0 = [t \in Tasks |-> 0]
  /\ h_prevFailed = {}
  /\ h_prevClean = FALSE
  /\ h_hourErr = {}
  /\ AutoUnused
  /\ FnUnused

\* main: progress = load_progress(); current_start = start_date; success = True
AutoStart ==
  /\ UNCHANGED notAuto
  /\ l_pc = "new"
  /\ IF load_progress_raises(progressFile)
     THEN /\ l_pc' = "load_raised"
          /\ UNCHANGED progress
     ELSE /\ progress' = load_progress(progressFile)
          /\ l_pc' = "loop"
  /\ current' = 0
  /\ success' = TRUE
  /\ UNCHANGED <<rangeVars, cache, progressFile, batch_current, batch_records,
                 ingested, h_days, h_net, h_ingestFailed, h_logged, h_ohlc>>

\* process_batch: downloader.download_date_range([symbol], start_date, end_date)
AutoPreDownload ==
  /\ UNCHANGED notAuto
  /\ l_pc = "loop"
  /\ AutoLoopTest
  /\ batch_records' = {}
  /\ batch_current' = current
  /\ h_net' = (h_net \/ PreDownloadRequests(current, BatchEnd(current)) # {})
  /\ l_pc' = "days"
  /\ UNCHANGED <<rangeVars, cache, progress, progressFile, current, ingested,
                 h_days, autoOnly>>

\* process_batch: the hours of one day, download_hour_data and
\* process_hour_ticks
AutoDay ==
  /\ UNCHANGED notAuto
  /\ l_pc = "days"
  /\ batch_current <= BatchEnd(current)
  /\ \E resp \in [Hours -> VendorResponses] :
       LET today == {t \in Tasks : t[1] = batch_current}
       IN  /\ batch_records' = batch_records \cup DayRecords(cache, batch_current, resp)
           /\ cache' = CacheAfterAll(cache, today, resp)
           /\ h_net' = (h_net \/ \E t \in today : cache[t] = "none")
  /\ batch_current' = batch_current + 1
  /\ h_days' = h_days \cup {batch_current}
  /\ UNCHANGED <<rangeVars, l_pc, progress, progressFile, current, ingested, autoOnly>>

\* process_batch returns: send_to_ilp(all_records, symbol) when there are
\* records, True when there are none; main assigns it to success
AutoSend ==
  /\ UNCHANGED notAuto
  /\ l_pc = "days"
  /\ batch_current > BatchEnd(current)
  /\ IF batch_records = {}
     THEN /\ success' = TRUE
          /\ l_pc' = "batch_done"
          /\ UNCHANGED <<ingested, h_ingestFailed>>
     ELSE \E outcome \in {"ok", "failed", "raised"} :
            /\ ingested' = [t \in Tasks |->
                              IF outcome = "ok" /\ t \in batch_records
                              THEN ingested[t] + 1 ELSE ingested[t]]
            /\ IF outcome = "raised"
               THEN /\ l_pc' = "raised"
                    /\ UNCHANGED <<success, h_ingestFailed>>
               ELSE /\ success' = send_to_ilp(outcome)
                    /\ h_ingestFailed' = IF outcome = "failed"
                                         THEN h_ingestFailed \cup (current .. BatchEnd(current))
                                         ELSE h_ingestFailed
                    /\ l_pc' = "batch_done"
  /\ UNCHANGED <<rangeVars, cache, progress, progressFile, current, batch_current,
                 batch_records, h_days, h_net, h_logged, h_ohlc>>

\* main: if success, the progress is updated; else the failure is logged and
\* the loop is left (break)
AutoBatchDone ==
  /\ UNCHANGED notAuto
  /\ l_pc = "batch_done"
  /\ IF success
     THEN /\ progress' = ProgressAfter(BatchEnd(current))
          /\ l_pc' = "save_open"
          /\ UNCHANGED h_logged
     ELSE /\ h_logged' = TRUE
          /\ l_pc' = "after_loop"
          /\ UNCHANGED progress
  /\ UNCHANGED <<rangeVars, cache, progressFile, current, batch_current, batch_records,
                 ingested, h_days, h_net, success, h_ingestFailed, h_ohlc>>

\* save_progress: open(STATE_FILE, 'w') truncates the file
AutoSaveOpen ==
  /\ UNCHANGED notAuto
  /\ l_pc = "save_open"
  /\ progressFile' = TruncatedProgress
  /\ l_pc' = "save_dump"
  /\ UNCHANGED <<rangeVars, cache, progress, current, batch_current, batch_records,
                 ingested, h_days, h_net, autoOnly>>

\* save_progress: json.dump and close; "Move to next batch"
AutoSaveDump ==
  /\ UNCHANGED notAuto
  /\ l_pc = "save_dump"
  /\ progressFile' = JsonProgress(progress)
  /\ current' = BatchEnd(current) + 1
  /\ l_pc' = "loop"
  /\ UNCHANGED <<rangeVars, cache, progress, batch_current, batch_records,
                 ingested, h_days, h_net, autoOnly>>

\* the loop test fails: the loop ends
AutoLoopEnd ==
  /\ UNCHANGED notAuto
  /\ l_pc = "loop"
  /\ ~AutoLoopTest
  /\ l_pc' = "after_loop"
  /\ UNCHANGED <<rangeVars, cache, progress, progressFile, current, batch_current,
                 batch_records, ingested, h_days, h_net, autoOnly>>

\* "Generate OHLC candles" if success, then "Completed"
AutoOhlc ==
  /\ UNCHANGED notAuto
  /\ l_pc = "after_loop"
  /\ h_ohlc' = success
  /\ l_pc' = "completed"
  /\ UNCHANGED <<rangeVars, cache, progress, progressFile, current, batch_current,
                 batch_records, ingested, h_days, h_net, success, h_ingestFailed,
                 h_logged>>

AutoNext ==
  \/ AutoStart
  \/ AutoPreDownload
  \/ AutoDay
  \/ AutoSend
  \/ AutoBatchDone
  \/ AutoSaveOpen
  \/ AutoSaveDump
  \/ AutoLoopEnd
  \/ AutoOhlc

SpecAuto == AutoInit /\ [][AutoNext]_vars

ProgramsUnused ==
  /\ numDays = 1
  /\ batch_days = 1
  /\ startWeekday = 0
  /\ startHour = 0
  /\ run = 1
  /\ cache = [t \in Tasks |-> "none"]
  /\ MgrUnused
  /\ LdrUnused

\* what session.get(url, timeout=...) does: it raises (connection error,
\* timeout), or returns a response with a status code and a body; "ticks"
\* and "corrupt" are two non-empty bodies, "" is the empty one
VendorAnswers ==
  {[raises |-> TRUE, status_code |-> 0, content |-> ""]} \cup
  [raises : {FALSE}, status_code : {200, 404}, content : {"", "ticks", "corrupt"}]

\* download_hour_data, from the try on: what the answer amounts to
ResponseOfBroken(a) ==
  IF a.raises THEN "neterror"
  ELSE IF a.content # "" THEN a.content
  ELSE "nodata"
ResponseOf(a) ==
  IF a.raises THEN "neterror"
  ELSE IF a.status_code = 200 /\ a.content # "" THEN a.content
  ELSE "nodata"

\* download_hour_data gets to session.get only when os.path.exists(cache_file)
\* is false
sends_request(c, t) == c[t] = "none"

\* the cache directories a call can find
Caches == [Tasks -> {"none", "ticks", "corrupt"}]

FetchInit ==
  /\ ProgramsUnused
  /\ fn_pc = "fetch_call"
  /\ fn_args \in [cache : Caches, key : Tasks, answer : VendorAnswers]
  /\ fn_result = <<>>

\* download_hour_data(instrument, date, hour), the whole call
FetchCall ==
  /\ UNCHANGED notFn
  /\ fn_pc = "fetch_call"
  /\ fn_result' =
       [ret |-> download_hour_data(fn_args.cache, fn_args.key, ResponseOf(fn_args.answer)),
        cache |-> CacheAfter(fn_args.cache, fn_args.key, ResponseOf(fn_args.answer)),
        requested |-> sends_request(fn_args.cache, fn_args.key)]
  /\ fn_pc' = "fetch_returned"
  /\ UNCHANGED fn_args

FetchNext == FetchCall

SpecFetch == FetchInit /\ [][FetchNext]_vars

\* ------------------------------------- properties of download_hour_data
\* C11: when a cache file exists for the key of the call, download_hour_data
\* sends no request, returns that file's contents and leaves the cache as it
\* was, whatever the vendor would have answered.
C11_CacheHitNoRequest ==
  (fn_pc = "fetch_returned" /\ fn_args.cache[fn_args.key] # "none") =>
    /\ ~fn_result.requested
    /\ fn_result.ret = fn_args.cache[fn_args.key]
    /\ fn_result.cache = fn_args.cache

\* a hit while the vendor would have answered 200 with another body
C11_Witness ==
  /\ fn_pc = "fetch_returned"
  /\ fn_args.cache[fn_args.key] = "ticks"
  /\ fn_args.answer = [raises |-> FALSE, status_code |-> 200, content |-> "corrupt"]
  /\ fn_result.ret = "ticks"

\* C12: on a cache miss the call sends a request; it creates the cache entry
\* of its key, holding the body, and returns the body exactly when the answer
\* is status 200 with a non-empty body; on any other answer, or when the
\* request raises, it returns None and leaves the cache unchanged.
C12_MissCachesOnlySuccess ==
  (fn_pc = "fetch_returned" /\ fn_args.cache[fn_args.key] = "none") =>
    LET a == fn_args.answer
        good == ~a.raises /\ a.status_code = 200 /\ a.content # ""
    IN  /\ fn_result.requested
        /\ good => /\ fn_result.ret = a.content
                   /\ fn_result.cache = [fn_args.cache EXCEPT ![fn_args.key] = a.content]
        /\ ~good => /\ fn_result.ret = "none"
                    /\ fn_result.cache = fn_args.cache

\* a miss answered 404 with a body: nothing cached, None returned
C12_Witness ==
  /\ fn_pc = "fetch_returned"
  /\ fn_args.cache[fn_args.key] = "none"
  /\ fn_args.answer = [raises |-> FALSE, status_code |-> 404, content |-> "ticks"]
  /\ fn_result.ret = "none"

\* =================================================================
\* download_date_range, the hour tasks of a range for any start datetime
\* =================================================================
\* range(24)
HoursOfDay == 0 .. 23

\* the hours download_date_range makes tasks for on a day `current`:
\* weekday = current.weekday(); current.hour is the hour of the start
\* datetime, which adding timedelta(days=...) keeps
day_tasks(weekday, current_hour) ==
  IF weekday < 5 \/ (weekday = 6 /\ current_hour >= 22) THEN HoursOfDay ELSE {}

\* a start datetime (its weekday and hour) and the number of days of the range
TasksInit ==
  /\ ProgramsUnused
  /\ fn_pc = "tasks_loop"
  /\ fn_args \in [weekday : 0 .. 6, hour : HoursOfDay, days : 1 .. MaxDays]
  /\ fn_result = [current |-> 0, tasks |-> {}]

\* one day of "while current <= batch_end", over the batches of the range
TasksDay ==
  /\ UNCHANGED notFn
  /\ fn_pc = "tasks_loop"
  /\ fn_result.current <= fn_args.days - 1
  /\ fn_result' =
       [current |-> fn_result.current + 1,
        tasks |-> fn_result.tasks \cup
                  { <<fn_result.current, h>> :
                      h \in day_tasks((fn_args.weekday + fn_result.current) % 7,
                                      fn_args.hour) }]
  /\ UNCHANGED <<fn_pc, fn_args>>

\* the last day of the range is done
TasksDone ==
  /\ UNCHANGED notFn
  /\ fn_pc = "tasks_loop"
  /\ fn_result.current > fn_args.days - 1
  /\ fn_pc' = "tasks_done"
  /\ UNCHANGED <<fn_args, fn_result>>

TasksNext ==
  \/ TasksDay
  \/ TasksDone

SpecTasks == TasksInit /\ [][TasksNext]_vars

\* C14: for every start datetime no hour task is made for a Saturday hour
\* or for a Sunday hour before 22:00.
C14_NoWeekendTasks ==
  \A t \in fn_result.tasks :
    LET weekday == (fn_args.weekday + t[1]) % 7
    IN  /\ weekday # 5
        /\ ~(weekday = 6 /\ t[2] < 22)

\* =================================================================
\* download_date_range, the batch list of a range
\* =================================================================
\* start_date is day `start`, end_date is day `end` (start - 1 when the range
\* is empty), batch_days >= 1
BatchListInit ==
  /\ ProgramsUnused
  /\ fn_pc = "batches_call"
  /\ \E s \in 0 .. 2, n \in 0 .. MaxSpan, bd \in 1 .. MaxStep :
       fn_args = [start |-> s, end |-> s + n - 1, batch_days |-> bd]
  /\ fn_result = <<>>

\* "Create batches of days to process", the whole while loop
BatchListBuild ==
  /\ UNCHANGED notFn
  /\ fn_pc = "batches_call"
  /\ fn_result' = BatchesFrom(fn_args.start, fn_args.end, fn_args.batch_days)
  /\ fn_pc' = "batches_built"
  /\ UNCHANGED fn_args

BatchListNext == BatchListBuild

SpecBatchList == BatchListInit /\ [][BatchListNext]_vars

\* the batches are consecutive, start at the start day, and each spans
\* batch_days days except the last, which spans 1 .. batch_days days
BatchesConsecutive ==
  /\ fn_result # <<>> => fn_result[1][1] = fn_args.start
  /\ \A i \in 1 .. Len(fn_result) - 1 :
       /\ fn_result[i + 1][1] = fn_result[i][2] + 1
       /\ fn_result[i][2] - fn_result[i][1] + 1 = fn_args.batch_days
  /\ \A i \in DOMAIN fn_result :
       /\ fn_result[i][2] - fn_result[i][1] + 1 >= 1
       /\ fn_result[i][2] - fn_result[i][1] + 1 <= fn_args.batch_days

\* the batches cover each day of first .. last exactly once, and no other day
BatchesCover(first, last) ==
  /\ \A d \in first .. last :
       Cardinality({i \in DOMAIN fn_result :
                      fn_result[i][1] <= d /\ d <= fn_result[i][2]}) = 1
  /\ \A i \in DOMAIN fn_result :
       first <= fn_result[i][1] /\ fn_result[i][2] <= last

\* C15 (as the code has it): the batches partition the closed day range
\* start .. end, the end day included: consecutive, non-overlapping, every
\* day of start .. end in exactly one batch and no other day in any, each
\* batch of batch_days days except the last, of 1 .. batch_days days.
C15_BatchesPartitionClosedRange ==
  fn_pc = "batches_built" =>
    /\ BatchesConsecutive
    /\ BatchesCover(fn_args.start, fn_args.end)

\* a range whose last batch is shorter and holds the end day
C15_Witness ==
  /\ fn_pc = "batches_built"
  /\ Len(fn_result) >= 2
  /\ fn_result[Len(fn_result)][2] = fn_args.end
  /\ fn_result[Len(fn_result)][2] - fn_result[Len(fn_result)][1] + 1 < fn_args.batch_days

\* C15 (as stated): the batches partition the half-open range [start, end):
\* the end day is in no batch.
C15_BatchesPartitionHalfOpenRange ==
  fn_pc = "batches_built" =>
    /\ BatchesConsecutive
    /\ BatchesCover(fn_args.start, fn_args.end - 1)

\* =================================================================
\* the chunking sinks: DukascopyManager.insert_batch_http and
\* DukascopyDownloader.insert_batch, one call checked on its own
\* =================================================================
\* chunk_size = 10 in insert_batch_http, chunk_size = 1000 in insert_batch
HTTP_CHUNK_SIZE == 10
CHUNK_SIZE == 1000
\* max_retries = 3 (insert_batch_http)
max_retries == 3

chunk_size(sink) == IF sink = "insert_batch_http" THEN HTTP_CHUNK_SIZE ELSE CHUNK_SIZE

\* values[i:i + chunk_size], as <<first, last>> positions (from 1) in values
ChunkBroken(i, n, size) == <<i + 1, Min(i + size - 1, n)>>
Chunk(i, n, size) == <<i + 1, Min(i + size, n)>>

\* "if retry == max_retries - 1 and result is None": the chunk has failed
chunk_failedBroken(retry, ok) == retry = max_retries - 1
chunk_failed(retry, ok) == retry = max_retries - 1 /\ ~ok

\* time.sleep(0.1 * (retry + 1)), in tenths of a second
backoff_tenths(retry) == retry + 1

\* the numbers of records the two sinks are called with
SinkInputs ==
  [sink : {"insert_batch_http"}, n : 0 .. MaxRecords] \cup
  [sink : {"insert_batch"},
   n : {k * (CHUNK_SIZE \div 2) + r :
          k \in 0 .. MaxRecords, r \in {0, 1, CHUNK_SIZE \div 2 - 1}}]

\* i is the loop variable of "for i in range(0, len(values), chunk_size)",
\* calls the execute_query calls made so far: <<first, last, result is not None>>,
\* sleeps the time.sleep calls made so far: <<first of the chunk, tenths>>
SinkInit ==
  /\ ProgramsUnused
  /\ fn_pc = "sink_call"
  /\ fn_args \in SinkInputs
  /\ fn_result = [i |-> 0, retry |-> 0, calls |-> <<>>, sleeps |-> <<>>,
                  success |-> TRUE, ret |-> "none"]

\* "if not records: return True"
SinkEmpty ==
  /\ UNCHANGED notFn
  /\ fn_pc = "sink_call"
  /\ fn_args.n = 0
  /\ fn_result' = [fn_result EXCEPT !.ret = TRUE]
  /\ fn_pc' = "sink_returned"
  /\ UNCHANGED fn_args

\* one execute_query(query) for the chunk at i: it returns the reply (ok) or
\* None; execute_query catches every exception itself
SinkAttempt ==
  /\ UNCHANGED notFn
  /\ fn_pc \in {"sink_call", "sink_loop"}
  /\ fn_args.n > 0
  /\ fn_result.i < fn_args.n
  /\ \E ok \in BOOLEAN :
       LET size == chunk_size(fn_args.sink)
           c == Chunk(fn_result.i, fn_args.n, size)
           logged == Append(fn_result.calls, <<c[1], c[2], ok>>)
           slept == IF ok THEN fn_result.sleeps
                    ELSE Append(fn_result.sleeps,
                                <<c[1], backoff_tenths(fn_result.retry)>>)
       IN  IF fn_args.sink = "insert_batch_http"
           THEN \* retry loop: break on a reply, else sleep and try again
                IF ~ok /\ fn_result.retry < max_retries - 1
                THEN /\ fn_result' = [fn_result EXCEPT !.calls = logged,
                                                       !.sleeps = slept,
                                                       !.retry = fn_result.retry + 1]
                     /\ fn_pc' = "sink_loop"
                ELSE /\ fn_result' = [fn_result EXCEPT
                                        !.calls = logged,
                                        !.sleeps = slept,
                                        !.retry = 0,
                                        !.i = fn_result.i + size,
                                        !.success = fn_result.success /\
                                                    ~chunk_failed(fn_result.retry, ok)]
                     /\ fn_pc' = "sink_loop"
           ELSE \* insert_batch: "if result is None: return False"
                IF ok
                THEN /\ fn_result' = [fn_result EXCEPT !.calls = logged,
                                                       !.i = fn_result.i + size]
                     /\ fn_pc' = "sink_loop"
                ELSE /\ fn_result' = [fn_result EXCEPT !.calls = logged, !.ret = FALSE]
                     /\ fn_pc' = "sink_returned"
  /\ UNCHANGED fn_args

\* the for loop is over: "return success" / "return True"
SinkReturn ==
  /\ UNCHANGED notFn
  /\ fn_pc = "sink_loop"
  /\ fn_result.i >= fn_args.n
  /\ fn_result' = [fn_result EXCEPT !.ret = fn_result.success]
  /\ fn_pc' = "sink_returned"
  /\ UNCHANGED fn_args

SinkNext ==
  \/ SinkEmpty
  \/ SinkAttempt
  \/ SinkReturn

SpecSink == SinkInit /\ [][SinkNext]_vars

\* ------------------------------------------------ properties of the sinks
\* ceil(n / size)
CeilDiv(n, size) == (n + size - 1) \div size

\* C16: when every write succeeds on its first attempt, a sink given n
\* records and chunk bound size has, when it returns, made exactly
\* ceil(n / size) insert calls; the k-th call carries the records
\* (k-1)*size + 1 .. min(k*size, n), so the calls are in input order, have at
\* most size rows and together hold every record once; it returns success,
\* and for n = 0 it has made no call.
C16_ChunksCoverInputOnce ==
  (fn_pc = "sink_returned" /\ \A k \in DOMAIN fn_result.calls : fn_result.calls[k][3]) =>
    LET size == chunk_size(fn_args.sink)
    IN  /\ fn_result.ret = TRUE
        /\ Len(fn_result.calls) = CeilDiv(fn_args.n, size)
        /\ \A k \in DOMAIN fn_result.calls :
             /\ fn_result.calls[k][1] = (k - 1) * size + 1
             /\ fn_result.calls[k][2] = Min(k * size, fn_args.n)
             /\ fn_result.calls[k][2] - fn_result.calls[k][1] + 1 <= size

\* insert_batch given 2,500 records has returned after 3 successful calls
C16_Witness ==
  /\ fn_pc = "sink_returned"
  /\ fn_args.sink = "insert_batch"
  /\ fn_args.n = 2 * CHUNK_SIZE + CHUNK_SIZE \div 2
  /\ Len(fn_result.calls) = 3
  /\ \A k \in DOMAIN fn_result.calls : fn_result.calls[k][3]

\* the positions in calls of the attempts for the chunk that starts at first
AttemptsOf(first) == {k \in DOMAIN fn_result.calls : fn_result.calls[k][1] = first}
ChunkStarts == {fn_result.calls[k][1] : k \in DOMAIN fn_result.calls}

\* C17: insert_batch_http attempts each chunk at most 3 times and makes no
\* attempt for a chunk after one that succeeded; when it returns, it returns
\* failure exactly when some chunk failed all 3 of its attempts.
C17_RetryBound ==
  fn_args.sink = "insert_batch_http" =>
    /\ \A c \in ChunkStarts :
         /\ Cardinality(AttemptsOf(c)) <= 3
         /\ \A k, m \in AttemptsOf(c) : (fn_result.calls[k][3] /\ k # m) => m < k
    /\ fn_pc = "sink_returned" =>
         ((fn_result.ret = FALSE) <=>
            \E c \in ChunkStarts :
              /\ Cardinality(AttemptsOf(c)) = 3
              /\ \A k \in AttemptsOf(c) : ~fn_result.calls[k][3])

\* a call that returned failure although one chunk got through on its third
\* attempt: another chunk failed three times
C17_Witness ==
  /\ fn_pc = "sink_returned"
  /\ fn_args.sink = "insert_batch_http"
  /\ fn_result.ret = FALSE
  /\ \E c \in ChunkStarts :
       /\ Cardinality(AttemptsOf(c)) = 3
       /\ \E k \in AttemptsOf(c) : fn_result.calls[k][3]

\* =================================================================
\* decompress_tick_data, one call checked on its own
\* =================================================================
\* tick_size = 20
tick_size == 20
\* ask = tick_data[1] / 100000.0
price_scale == 100000

\* the values a 4-byte field of the payload is given
FieldValues == {1, 2}

\* a price: the unsigned field divided by 100000.0
price(field) == [num |-> field, den |-> price_scale]

\* one record of the payload, unpacked with '>IIIff' into
\* tick_data = (time_delta, ask, bid, ask_volume, bid_volume), gives the tick
\* (time_delta, bid, ask, bid_volume, ask_volume)
decode_tickBroken(tick_data) ==
  <<tick_data[1], price(tick_data[2]), price(tick_data[3]), tick_data[4], tick_data[5]>>
decode_tick(tick_data) ==
  <<tick_data[1], price(tick_data[3]), price(tick_data[2]), tick_data[5], tick_data[4]>>

\* a blob: whether lzma.decompress accepts it, and the payload's length
DecodeInit ==
  /\ ProgramsUnused
  /\ fn_pc = "decode_call"
  /\ fn_args \in [decompresses : BOOLEAN, len : 0 .. MaxPayload]
  /\ fn_result = [i |-> 0, read |-> <<>>, ticks |-> <<>>, ret |-> "none"]

\* lzma.decompress(compressed_data): it raises on a blob that is not LZMA,
\* the except branch returns []
DecodeDecompress ==
  /\ UNCHANGED notFn
  /\ fn_pc = "decode_call"
  /\ IF fn_args.decompresses
     THEN /\ fn_pc' = "decode_loop"
          /\ UNCHANGED fn_result
     ELSE /\ fn_pc' = "decode_returned"
          /\ fn_result' = [fn_result EXCEPT !.ret = <<>>]
  /\ UNCHANGED fn_args

\* for i in range(0, len(decompressed), tick_size), a whole record at i: the
\* bytes [i, i + 20) hold five fields, read is the record of what was read
DecodeRecord ==
  /\ UNCHANGED notFn
  /\ fn_pc = "decode_loop"
  /\ fn_result.i < fn_args.len
  /\ fn_result.i + tick_size <= fn_args.len
  /\ \E tick_data \in [1 .. 5 -> FieldValues] :
       fn_result' = [fn_result EXCEPT
                       !.i = fn_result.i + tick_size,
                       !.read = Append(fn_result.read,
                                       [first |-> fn_result.i,
                                        last |-> fn_result.i + tick_size - 1,
                                        fields |-> tick_data]),
                       !.ticks = Append(fn_result.ticks, decode_tick(tick_data))]
  /\ UNCHANGED <<fn_pc, fn_args>>

\* the last step of the range when fewer than 20 bytes are left at i
DecodePartial ==
  /\ UNCHANGED notFn
  /\ fn_pc = "decode_loop"
  /\ fn_result.i < fn_args.len
  /\ fn_result.i + tick_size > fn_args.len
  /\ fn_result' = [fn_result EXCEPT !.i = fn_result.i + tick_size]
  /\ UNCHANGED <<fn_pc, fn_args>>

\* return ticks
DecodeReturn ==
  /\ UNCHANGED notFn
  /\ fn_pc = "decode_loop"
  /\ fn_result.i >= fn_args.len
  /\ fn_result' = [fn_result EXCEPT !.ret = fn_result.ticks]
  /\ fn_pc' = "decode_returned"
  /\ UNCHANGED fn_args

DecodeNext ==
  \/ DecodeDecompress
  \/ DecodeRecord
  \/ DecodePartial
  \/ DecodeReturn

SpecDecode == DecodeInit /\ [][DecodeNext]_vars

\* C19: for a payload of length L decompress_tick_data returns L div 20
\* ticks; the k-th (from 1) is built from the bytes 20(k-1) .. 20(k-1)+19,
\* its time from the first field, its ask from the second field and its bid
\* from the third, each divided by 100000, its ask volume from the fourth and
\* its bid volume from the fifth; no byte after the last whole record is read.
C19_DecodeWholeRecordsInOrder ==
  (fn_pc = "decode_returned" /\ fn_args.decompresses) =>
    /\ Len(fn_result.ret) = fn_args.len \div 20
    /\ Len(fn_result.read) = Len(fn_result.ret)
    /\ \A k \in DOMAIN fn_result.ret :
         LET r == fn_result.read[k]
             t == fn_result.ret[k]
         IN  /\ r.first = 20 * (k - 1) /\ r.last = 20 * (k - 1) + 19
             /\ r.last < fn_args.len
             /\ t[1] = r.fields[1]
             /\ t[3] = [num |-> r.fields[2], den |-> 100000]
             /\ t[2] = [num |-> r.fields[3], den |-> 100000]
             /\ t[5] = r.fields[4]
             /\ t[4] = r.fields[5]

\* two whole records followed by a partial one, ask and bid fields differing
C19_Witness ==
  /\ fn_pc = "decode_returned"
  /\ fn_args.len = 45
  /\ Len(fn_result.ret) = 2
  /\ fn_result.read[1].fields[2] # fn_result.read[1].fields[3]
  /\ fn_result.read[2].fields[4] # fn_result.read[2].fields[5]

\* =================================================================
\* process_hour_ticks, the enrichment of the ticks of one hour
\* =================================================================
\* bid and ask of a tick, in units of 1/100000
PriceValues == {0, 1, 2}

\* "Skip invalid prices"
skip_tickBroken(bid, ask) == bid <= 0 \/ ask <= 0 \/ bid > ask
skip_tick(bid, ask) == bid <= 0 \/ ask <= 0 \/ bid >= ask

\* the record built from a tick (time_delta, bid, ask, bid_vol, ask_vol);
\* timestamp is the offset from base_time
tick_record(tick) ==
  [timestamp |-> tick[1], bid |-> tick[2], ask |-> tick[3],
   price |-> [num |-> tick[2] + tick[3], den |-> 2],
   spread |-> tick[3] - tick[2],
   volume |-> tick[4] + tick[5]]

\* the tick lists decompress_tick_data can hand over: the k-th tick has
\* time_delta k
TickLists ==
  UNION { { [k \in 1 .. n |-> <<k, p[k][1], p[k][2], 1, 2>>] :
              p \in [1 .. n -> PriceValues \X PriceValues] } : n \in 0 .. MaxTicks }

EnrichInit ==
  /\ ProgramsUnused
  /\ fn_pc = "enrich_call"
  /\ fn_args \in [ticks : TickLists]
  /\ fn_result = [k |-> 1, records |-> <<>>, ret |-> "none"]

\* "if not ticks: return []"
EnrichEmpty ==
  /\ UNCHANGED notFn
  /\ fn_pc = "enrich_call"
  /\ fn_args.ticks = <<>>
  /\ fn_result' = [fn_result EXCEPT !.ret = <<>>]
  /\ fn_pc' = "enrich_returned"
  /\ UNCHANGED fn_args

\* one turn of "for tick in ticks": continue, or append the record
EnrichTick ==
  /\ UNCHANGED notFn
  /\ fn_pc \in {"enrich_call", "enrich_loop"}
  /\ fn_result.k <= Len(fn_args.ticks)
  /\ LET tick == fn_args.ticks[fn_result.k]
     IN  fn_result' =
           [fn_result EXCEPT
              !.k = fn_result.k + 1,
              !.records = IF skip_tick(tick[2], tick[3]) THEN fn_result.records
                          ELSE Append(fn_result.records, tick_record(tick))]
  /\ fn_pc' = "enrich_loop"
  /\ UNCHANGED fn_args

\* return records
EnrichReturn ==
  /\ UNCHANGED notFn
  /\ fn_pc = "enrich_loop"
  /\ fn_result.k > Len(fn_args.ticks)
  /\ fn_result' = [fn_result EXCEPT !.ret = fn_result.records]
  /\ fn_pc' = "enrich_returned"
  /\ UNCHANGED fn_args

EnrichNext ==
  \/ EnrichEmpty
  \/ EnrichTick
  \/ EnrichReturn

SpecEnrich == EnrichInit /\ [][EnrichNext]_vars

\* C18: the records process_hour_ticks returns are exactly the input ticks
\* with bid > 0, ask > 0 and bid < ask, in input order: every record meets
\* the three conditions and carries the bid and ask of its tick, the records
\* follow the order of the ticks, every valid tick has its record, and the
\* output is never longer than the input.
C18_OnlyValidTicksInOrder ==
  fn_pc = "enrich_returned" =>
    LET in == fn_args.ticks
        out == fn_result.ret
    IN  /\ Len(out) <= Len(in)
        /\ \A j \in DOMAIN out :
             /\ out[j].bid > 0 /\ out[j].ask > 0 /\ out[j].bid < out[j].ask
             /\ out[j].timestamp \in DOMAIN in
             /\ out[j].bid = in[out[j].timestamp][2]
             /\ out[j].ask = in[out[j].timestamp][3]
        /\ \A j \in 1 .. Len(out) - 1 : out[j].timestamp < out[j + 1].timestamp
        /\ \A k \in DOMAIN in :
             (in[k][2] > 0 /\ in[k][3] > 0 /\ in[k][2] < in[k][3])
               => \E j \in DOMAIN out : out[j].timestamp = k

\* a valid tick, a tick with bid = ask, a valid tick: two records
C18_Witness ==
  /\ fn_pc = "enrich_returned"
  /\ Len(fn_args.ticks) = 3
  /\ fn_args.ticks[1][2] < fn_args.ticks[1][3] /\ fn_args.ticks[1][2] > 0
  /\ fn_args.ticks[2][2] = fn_args.ticks[2][3] /\ fn_args.ticks[2][2] > 0
  /\ fn_args.ticks[3][2] < fn_args.ticks[3][3] /\ fn_args.ticks[3][2] > 0
  /\ Len(fn_result.ret) = 2

\* =================================================================
\* is_market_open, one call checked on its own
\* =================================================================
\* is_market_open(hour, day_of_week), day_of_week = timestamp.isoweekday()
is_market_openBroken(hour, day_of_week) ==
  IF day_of_week = 4 THEN hour < 22
  ELSE IF day_of_week = 5 THEN FALSE
  ELSE IF day_of_week = 6 THEN hour >= 22
  ELSE TRUE
is_market_open(hour, day_of_week) ==
  IF day_of_week = 5 THEN hour < 22
  ELSE IF day_of_week = 6 THEN FALSE
  ELSE IF day_of_week = 7 THEN hour >= 22
  ELSE TRUE

\* timestamp.hour and timestamp.isoweekday() of a record
MarketInit ==
  /\ ProgramsUnused
  /\ fn_pc = "market_call"
  /\ fn_args \in [hour : HoursOfDay, day_of_week : 1 .. 7]
  /\ fn_result = <<>>

MarketCall ==
  /\ UNCHANGED notFn
  /\ fn_pc = "market_call"
  /\ fn_result' = <<is_market_open(fn_args.hour, fn_args.day_of_week)>>
  /\ fn_pc' = "market_returned"
  /\ UNCHANGED fn_args

MarketNext == MarketCall

SpecMarket == MarketInit /\ [][MarketNext]_vars

\* C20: is_market_open is true exactly for Monday to Thursday (1-4) at any
\* hour, Friday (5) at hours 0-21 and Sunday (7) at hours 22-23; it is false
\* for Saturday (6), Friday hours 22-23 and Sunday hours 0-21.
C20_MarketOpenTable ==
  fn_pc = "market_returned" =>
    (fn_result[1] <=>
       \/ fn_args.day_of_week \in 1 .. 4
       \/ (fn_args.day_of_week = 5 /\ fn_args.hour \in 0 .. 21)
       \/ (fn_args.day_of_week = 7 /\ fn_args.hour \in 22 .. 23))

\* Friday 22:00 is closed
C20_Witness ==
  /\ fn_pc = "market_returned"
  /\ fn_args = [hour |-> 22, day_of_week |-> 5]
  /\ fn_result = <<FALSE>>

\* =================================================================
\* determine_trading_session, one call checked on its own
\* =================================================================
\* the if/elif chain of DukascopyManager.determine_trading_session: the tests
\* in order, each with the label it returns
ManagerBandsBroken(hour) ==
  << <<7 <= hour /\ hour < 16, "EUROPE">>,
     <<0 <= hour /\ hour < 9, "ASIA">>,
     <<12 <= hour /\ hour < 21, "US">>,
     <<hour >= 20 \/ hour < 3, "OVERLAP">> >>
ManagerBands(hour) ==
  << <<0 <= hour /\ hour < 9, "ASIA">>,
     <<7 <= hour /\ hour < 16, "EUROPE">>,
     <<12 <= hour /\ hour < 21, "US">>,
     <<hour >= 20 \/ hour < 3, "OVERLAP">> >>

\* the if/elif chain of DukascopyDownloader.determine_trading_session
DownloaderBands(hour) ==
  << <<0 <= hour /\ hour < 6, "SYDNEY_TOKYO">>,
     <<hour = 8, "TOKYO_LONDON">>,
     <<13 <= hour /\ hour < 17, "LONDON_NEW_YORK">>,
     <<21 <= hour \/ hour < 6, "SYDNEY">>,
     <<0 <= hour /\ hour < 9, "TOKYO">>,
     <<8 <= hour /\ hour < 17, "LONDON">>,
     <<13 <= hour /\ hour < 22, "NEW_YORK">> >>

session_bands(class, hour) ==
  IF class = "DukascopyManager" THEN ManagerBands(hour) ELSE DownloaderBands(hour)

\* fn_result: the test the call is at, and what it has returned
SessionInit ==
  /\ ProgramsUnused
  /\ fn_pc = "session_call"
  /\ fn_args \in [class : {"DukascopyManager", "DukascopyDownloader"}, hour : HoursOfDay]
  /\ fn_result = [test |-> 1, ret |-> "none"]

\* the test of one if/elif is true: return its label
SessionMatch ==
  /\ UNCHANGED notFn
  /\ fn_pc = "session_call"
  /\ fn_result.test <= Len(session_bands(fn_args.class, fn_args.hour))
  /\ session_bands(fn_args.class, fn_args.hour)[fn_result.test][1]
  /\ fn_result' = [fn_result EXCEPT
                     !.ret = session_bands(fn_args.class, fn_args.hour)[fn_result.test][2]]
  /\ fn_pc' = "session_returned"
  /\ UNCHANGED fn_args

\* the test is false: go to the next elif; after the last one, the else
\* branch returns "CLOSED"
SessionNoMatch ==
  /\ UNCHANGED notFn
  /\ fn_pc = "session_call"
  /\ IF fn_result.test > Len(session_bands(fn_args.class, fn_args.hour))
     THEN /\ fn_result' = [fn_result EXCEPT !.ret = "CLOSED"]
          /\ fn_pc' = "session_returned"
     ELSE /\ ~session_bands(fn_args.class, fn_args.hour)[fn_result.test][1]
          /\ fn_result' = [fn_result EXCEPT !.test = fn_result.test + 1]
          /\ UNCHANGED fn_pc
  /\ UNCHANGED fn_args

SessionNext ==
  \/ SessionMatch
  \/ SessionNoMatch

SpecSession == SessionInit /\ [][SessionNext]_vars

\* C21: for every hour 0-23 determine_trading_session returns one label, that
\* of the first band of the chain that holds the hour (some band does); in
\* DukascopyManager it is ASIA for 0-8, EUROPE for 9-15, US for 16-20 and
\* OVERLAP for 21-23.
C21_SessionTotalFirstBand ==
  fn_pc = "session_returned" =>
    LET bands == IF fn_args.class = "DukascopyManager"
                 THEN ManagerBands(fn_args.hour) ELSE DownloaderBands(fn_args.hour)
        holds == {k \in DOMAIN bands : bands[k][1]}
    IN  /\ holds # {}
        /\ \E k \in holds : (\A m \in holds : k <= m) /\ fn_result.ret = bands[k][2]
        /\ fn_result.ret \notin {"none", "CLOSED"}
        /\ fn_args.class = "DukascopyManager" =>
             fn_result.ret = IF fn_args.hour \in 0 .. 8 THEN "ASIA"
                             ELSE IF fn_args.hour \in 9 .. 15 THEN "EUROPE"
                             ELSE IF fn_args.hour \in 16 .. 20 THEN "US"
                             ELSE "OVERLAP"

\* hour 20 is in the US band and in the OVERLAP band: US comes first
C21_Witness ==
  /\ fn_pc = "session_returned"
  /\ fn_args = [class |-> "DukascopyManager", hour |-> 20]
  /\ fn_result.ret = "US"

\* =================================================================
\* the candles endpoint (deprecated/python-api/api/main.py), one request
\* =================================================================
\* TIMEFRAMES
TIMEFRAMES == {"1m", "5m", "15m", "30m", "1h", "4h", "1d"}

\* "Check if range is too large": time_diff in days
range_too_largeBroken(tf, time_diff) ==
  \/ (tf = "1m" /\ time_diff > 7)
  \/ (tf \in {"5m"} /\ time_diff > 30)
range_too_large(tf, time_diff) ==
  \/ (tf = "1m" /\ time_diff > 7)
  \/ (tf \in {"5m", "15m"} /\ time_diff > 30)

\* a request: tf (one of TIMEFRAMES, the Query pattern), start and end in
\* days; parses: both strings are ISO timestamps; mixed: one has a UTC offset
\* and the other has none; cached: the entry of the request's cache key;
\* db: what the database does if queried
CandleRequests ==
  [tf : TIMEFRAMES, start : 0 .. 1, end : 0 .. MaxEndDay,
   parses : BOOLEAN, mixed : BOOLEAN,
   cached : {"absent", "fresh", "expired"},
   db : {"no_pool", "rows", "no_rows", "error"}]

CandlesInit ==
  /\ ProgramsUnused
  /\ fn_pc = "candles_call"
  /\ fn_args \in CandleRequests
  /\ fn_result = [status |-> 0, cache |-> fn_args.cached, looked_up |-> FALSE,
                  queried |-> FALSE, hits |-> 0, misses |-> 0, total_requests |-> 0]

\* get_candles up to "Generate cache key": the counter of requests, the
\* parse of the timestamps and the two checks; comparing a timestamp with an
\* offset to one without raises TypeError, which the server answers with 500
CandlesValidate ==
  /\ UNCHANGED notFn
  /\ fn_pc = "candles_call"
  /\ LET counted == [fn_result EXCEPT !.total_requests = fn_result.total_requests + 1]
     IN  IF ~fn_args.parses
         THEN /\ fn_result' = [counted EXCEPT !.status = 400]
              /\ fn_pc' = "candles_done"
         ELSE IF fn_args.mixed
         THEN /\ fn_result' = [counted EXCEPT !.status = 500]
              /\ fn_pc' = "candles_done"
         ELSE IF fn_args.start >= fn_args.end
         THEN /\ fn_result' = [counted EXCEPT !.status = 400]
              /\ fn_pc' = "candles_done"
         ELSE IF range_too_large(fn_args.tf, fn_args.end - fn_args.start)
         THEN /\ fn_result' = [counted EXCEPT !.status = 400]
              /\ fn_pc' = "candles_done"
         ELSE /\ fn_result' = counted
              /\ fn_pc' = "candles_cache"
  /\ UNCHANGED fn_args

\* "Check cache": a hit that has not expired is returned, else it is a miss
CandlesCache ==
  /\ UNCHANGED notFn
  /\ fn_pc = "candles_cache"
  /\ IF fn_result.cache = "fresh"
     THEN /\ fn_result' = [fn_result EXCEPT !.looked_up = TRUE, !.status = 200,
                                            !.hits = fn_result.hits + 1]
          /\ fn_pc' = "candles_done"
     ELSE /\ fn_result' = [fn_result EXCEPT !.looked_up = TRUE,
                                            !.misses = fn_result.misses + 1]
          /\ fn_pc' = "candles_query"
  /\ UNCHANGED fn_args

\* "Query database": the rows are formatted, cached and returned
CandlesQuery ==
  /\ UNCHANGED notFn
  /\ fn_pc = "candles_query"
  /\ fn_result' =
       IF fn_args.db = "no_pool" THEN [fn_result EXCEPT !.status = 500]
       ELSE IF fn_args.db = "error" THEN [fn_result EXCEPT !.status = 500, !.queried = TRUE]
       ELSE IF fn_args.db = "no_rows" THEN [fn_result EXCEPT !.status = 200, !.queried = TRUE]
       ELSE [fn_result EXCEPT !.status = 200, !.queried = TRUE, !.cache = "stored"]
  /\ fn_pc' = "candles_done"
  /\ UNCHANGED fn_args

CandlesNext ==
  \/ CandlesValidate
  \/ CandlesCache
  \/ CandlesQuery

SpecCandles == CandlesInit /\ [][CandlesNext]_vars

C26_EveryOpenHourHasTask ==
  fn_pc = "tasks_done" =>
    \A i \in 0 .. fn_args.days - 1 : \A h \in HoursOfDay :
      is_market_open(h, ((fn_args.weekday + i) % 7) + 1) => <<i, h>> \in fn_result.tasks

\* =================================================================
\* the sinks after a chunk that failed
\* =================================================================
\* the execute_query call j was the last of max_retries calls for one chunk,
\* none of which got a reply
chunk_exhausted(calls, j) ==
  /\ j >= max_retries
  /\ \A m \in (j - max_retries + 1) .. j :
       calls[m][1] = calls[j][1] /\ ~calls[m][3]

\* C27: once a chunk of an insert_batch_http call has failed all of its
\* attempts, no later execute_query call of that call writes a chunk.
C27_NoWriteAfterFailedChunk ==
  fn_pc \in {"sink_call", "sink_loop", "sink_returned"} =>
    (fn_args.sink = "insert_batch_http" =>
       \A j, k \in DOMAIN fn_result.calls :
         (j < k /\ chunk_exhausted(fn_result.calls, j)) => ~fn_result.calls[k][3])

\* =================================================================
\* the cache files of download_hour_data under concurrent workers and
\* an interrupted process
\* =================================================================
\* the longest vendor body, in bytes
MaxBody == 3

\* two hour tasks of one batch, each run by its own worker of the pool;
\* the cache file name is made of instrument, date and hour, one per task
CacheKeys == {"k1", "k2"}

\* a cache file: <<>> when absent, else <<the number of bytes it holds>>
\* "with open(cache_file, 'wb')" creates the file, or truncates it, to 0 bytes
opened_file == <<0>>
\* f.write(response.content): the bytes reach the file in one or more pieces
written_sizes(file, len) == (file[1] + 1) .. len

\* the body of every key is fn_args.len bytes long; pc is the position of
\* each worker in download_hour_data, ret what its call returned
CacheInit ==
  /\ ProgramsUnused
  /\ fn_pc = "cache_run"
  /\ fn_args \in [len : 1 .. MaxBody]
  /\ fn_result = [disk |-> [k \in CacheKeys |-> <<>>],
                  pc |-> [k \in CacheKeys |-> "start"],
                  ret |-> [k \in CacheKeys |-> <<>>],
                  hit |-> [k \in CacheKeys |-> FALSE],
                  run |-> 1]

\* "if os.path.exists(cache_file): with open(cache_file, 'rb') as f: return f.read()"
CacheHit ==
  /\ UNCHANGED notFn
  /\ fn_pc = "cache_run"
  /\ \E k \in CacheKeys :
       /\ fn_result.pc[k] = "start"
       /\ fn_result.disk[k] # <<>>
       /\ fn_result' = [fn_result EXCEPT !.pc[k] = "returned",
                                          !.ret[k] = fn_result.disk[k],
                                          !.hit[k] = TRUE]
  /\ UNCHANGED <<fn_pc, fn_args>>

\* a miss: session.get; status 200 with a body leads to the cache write,
\* any other answer returns None
CacheFetch ==
  /\ UNCHANGED notFn
  /\ fn_pc = "cache_run"
  /\ \E k \in CacheKeys, a \in VendorAnswers :
       /\ fn_result.pc[k] = "start"
       /\ fn_result.disk[k] = <<>>
       /\ IF ResponseOf(a) \in {"neterror", "nodata"}
          THEN fn_result' = [fn_result EXCEPT !.pc[k] = "returned"]
          ELSE fn_result' = [fn_result EXCEPT !.pc[k] = "fetched"]
  /\ UNCHANGED <<fn_pc, fn_args>>

\* open(cache_file, 'wb')
CacheOpen ==
  /\ UNCHANGED notFn
  /\ fn_pc = "cache_run"
  /\ \E k \in CacheKeys :
       /\ fn_result.pc[k] = "fetched"
       /\ fn_result' = [fn_result EXCEPT !.pc[k] = "opened",
                                          !.disk[k] = opened_file]
  /\ UNCHANGED <<fn_pc, fn_args>>

\* f.write(response.content) and the flush at the end of the with block
CacheWrite ==
  /\ UNCHANGED notFn
  /\ fn_pc = "cache_run"
  /\ \E k \in CacheKeys :
       /\ fn_result.pc[k] = "opened"
       /\ \E size \in written_sizes(fn_result.disk[k], fn_args.len) :
            fn_result' = [fn_result EXCEPT
                            !.disk[k] = <<size>>,
                            !.pc[k] = IF size = fn_args.len THEN "written" ELSE "opened"]
  /\ UNCHANGED <<fn_pc, fn_args>>

\* "return response.content"
CacheReturn ==
  /\ UNCHANGED notFn
  /\ fn_pc = "cache_run"
  /\ \E k \in CacheKeys :
       /\ fn_result.pc[k] = "written"
       /\ fn_result' = [fn_result EXCEPT !.pc[k] = "returned",
                                          !.ret[k] = <<fn_args.len>>]
  /\ UNCHANGED <<fn_pc, fn_args>>

\* the process is killed while workers are in download_hour_data: the
\* files stay as they are
CacheCrash ==
  /\ UNCHANGED notFn
  /\ fn_pc = "cache_run"
  /\ \E k \in CacheKeys : fn_result.pc[k] \notin {"returned", "dead"}
  /\ fn_result' = [fn_result EXCEPT !.pc = [k \in CacheKeys |-> "dead"]]
  /\ UNCHANGED <<fn_pc, fn_args>>

\* the same range is loaded again by a new process
CacheRerun ==
  /\ UNCHANGED notFn
  /\ fn_pc = "cache_run"
  /\ \A k \in CacheKeys : fn_result.pc[k] \in {"returned", "dead"}
  /\ fn_result.run < MaxRuns
  /\ fn_result' = [fn_result EXCEPT !.pc = [k \in CacheKeys |-> "start"],
                                     !.ret = [k \in CacheKeys |-> <<>>],
                                     !.hit = [k \in CacheKeys |-> FALSE],
                                     !.run = fn_result.run + 1]
  /\ UNCHANGED <<fn_pc, fn_args>>

CacheNext ==
  \/ CacheHit
  \/ CacheFetch
  \/ CacheOpen
  \/ CacheWrite
  \/ CacheReturn
  \/ CacheCrash
  \/ CacheRerun

SpecCacheWrite == CacheInit /\ [][CacheNext]_vars

\* C28: a cache file that no worker of the running process is writing holds
\* the complete body, and a cache hit returns the complete body, never an
\* empty or truncated one, also after an interrupted run.
C28_CacheFilesComplete ==
  fn_pc = "cache_run" =>
    \A k \in CacheKeys :
      /\ (fn_result.pc[k] \notin {"opened", "written"} /\ fn_result.disk[k] # <<>>)
           => fn_result.disk[k] = <<fn_args.len>>
      /\ fn_result.hit[k] => fn_result.ret[k] = <<fn_args.len>>

\* =================================================================
\* the batch loops of process_date_range and download_date_range for
\* every --batch-days the command line takes
\* =================================================================
\* the manager's batch_days when the config file gives none (the loader's
\* DEFAULT_BATCH_DAYS has the same value)
DEFAULT_BATCH_DAYS == 3

\* "--batch-days", type=int: any integer; the manager keeps its configured
\* batch_days when the argument is missing or 0 ("if args.batch_days:")
batch_days_used(prog, arg) ==
  IF prog = "download_date_range" /\ arg = 0 THEN DEFAULT_BATCH_DAYS ELSE arg

\* min(current + timedelta(days=batch_days - 1), end_date)
batch_end_of(current_day, days, end) == Min(current_day + days - 1, end)

\* the most iterations of a loop that are followed
MaxVisits == MaxSpan + 2

LoopInit ==
  /\ ProgramsUnused
  /\ fn_pc = "batch_loop"
  /\ fn_args \in [prog : {"process_date_range", "download_date_range"},
                   batch_days : (0 - MaxBatchDays) .. (MaxBatchDays + 1),
                   start : 0 .. 1, end : 0 .. MaxSpan]
  /\ fn_result = [current |-> fn_args.start, visited |-> 0]

\* one iteration of "while current <= end_date": the batch is handled (each
\* fetch and store call returns) and current = batch_end + timedelta(days=1)
LoopBatch ==
  /\ UNCHANGED notFn
  /\ fn_pc = "batch_loop"
  /\ fn_result.current <= fn_args.end
  /\ fn_result.visited < MaxVisits
  /\ fn_result' =
       [current |-> batch_end_of(fn_result.current,
                                 batch_days_used(fn_args.prog, fn_args.batch_days),
                                 fn_args.end) + 1,
        visited |-> fn_result.visited + 1]
  /\ UNCHANGED <<fn_pc, fn_args>>

\* the loop condition is false
LoopDone ==
  /\ UNCHANGED notFn
  /\ fn_pc = "batch_loop"
  /\ fn_result.current > fn_args.end
  /\ fn_pc' = "batch_done"
  /\ UNCHANGED <<fn_args, fn_result>>

LoopNext ==
  \/ LoopBatch
  \/ LoopDone

SpecBatchLoop == LoopInit /\ [][LoopNext]_vars

\* C29: for every integer --batch-days and every date range the batch loop
\* visits finitely many batches: never more than the range has days.
C29_FinitelyManyBatches ==
  fn_pc \in {"batch_loop", "batch_done"} =>
    fn_result.visited <= (IF fn_args.end >= fn_args.start
                          THEN fn_args.end - fn_args.start + 1 ELSE 0)

====
